---- MODULE Spec2Model ----
(***************************************************************************)
(* fastmda: the value endpoints of a device (objects.py) driven by         *)
(* concurrent client tasks, with the shipped example driver                *)
(* (device_types/example_device/example_device.py) and with drivers that   *)
(* implement the abstract endpoint classes (specification Spec); and the   *)
(* server around them: driver discovery and device instantiation at        *)
(* startup, the device routes, shutdown (main.py, routers/devices.py), and *)
(* Detector.acquire (specification ServerSpec); and a running server with  *)
(* one live device whose endpoints are driven while the device is          *)
(* connected and disconnected (specification LiveSpec).                    *)
(*                                                                         *)
(* Floats are modelled by the integers they denote (0. -> 0, 1e3 -> 1000). *)
(* Optional[float] is modelled by a set: None is {}, a number x is {x}.    *)
(***************************************************************************)
EXTENDS Integers, Sequences, FiniteSets, Bags, TLC

VARIABLES
    driven,       \* the endpoint the client tasks of this run drive
    value,        \* per endpoint: the driver's stored value (_position / _wait_time)
    invalid,      \* per endpoint: _invalid_value_index (a list)
    soft_limits,  \* per endpoint: _soft_limits (a pair of Optional[float])
    inflight,     \* the set_value calls suspended in the driver write (a bag)
    last,         \* the call or return made by the last step, with its outcome
    installed,    \* the driver packages present in fastmda.device_types
    phase,        \* the server process: "boot", "up", "failed" or "down"
    device_types_info,     \* globals.device_types_info
    device_types_modules,  \* globals.device_types_modules
    device_dict,  \* globals.device_dict: the live Device objects by id
    db            \* the device_info table: the persisted records, by id

server_vars ==
    <<installed, phase, device_types_info, device_types_modules, device_dict, db>>

vars == <<driven, value, invalid, soft_limits, inflight, last, installed, phase,
          device_types_info, device_types_modules, device_dict, db>>

----------------------------------------------------------------------------
(* Bounds *)

NumTasks == 2      \* client tasks that may be inside set_value at once
MaxInvalid == 2    \* cap on the length of _invalid_value_index

----------------------------------------------------------------------------
(* Optional[float] *)

None == {}
Some(x) == {x}
Get(o) == CHOOSE x \in o : TRUE

(* Mutant of within_limit: the bounds are exclusive. *)
within_limit_exclusive(v, limits) ==
    /\ (limits[1] = None \/ Get(limits[1]) < v)
    /\ (limits[2] = None \/ v < Get(limits[2]))

(* objects.py within_limit *)
within_limit(v, limits) ==
    /\ (limits[1] = None \/ Get(limits[1]) <= v)
    /\ (limits[2] = None \/ v <= Get(limits[2]))

----------------------------------------------------------------------------
(* The object trees.  A node is a Device, an Actuator or a Detector.       *)

DeviceNode(id) == [cls |-> "AbstractDevice", device_id |-> id]
ActuatorNode(cls, id, p) == [cls |-> cls, actuator_id |-> id, parent |-> p]
DetectorNode(id, p) == [cls |-> "Detector", detector_id |-> id, parent |-> p]

ExampleDeviceId == 1
AbstractDeviceId == 2

(* The endpoints: the two of the example device, and one per abstract     *)
(* endpoint class and kind of parent for a driver subclassing them.       *)
ExampleEndpoints == {"MyActuator", "DelaySetting"}
AbstractEndpoints ==
    {"DiscreteActuator", "ContinuousActuator",
     "DiscreteSetting.device", "DiscreteSetting.detector",
     "ContinuousSetting.device", "ContinuousSetting.actuator"}
Endpoints == ExampleEndpoints \cup AbstractEndpoints

(* The abstract class an endpoint derives from. *)
Class(e) ==
    CASE e = "MyActuator" -> "DiscreteActuator"
      [] e = "DelaySetting" -> "ContinuousSetting"
      [] e = "DiscreteActuator" -> "DiscreteActuator"
      [] e = "ContinuousActuator" -> "ContinuousActuator"
      [] e \in {"DiscreteSetting.device", "DiscreteSetting.detector"} -> "DiscreteSetting"
      [] OTHER -> "ContinuousSetting"

IsDiscrete(e) == Class(e) \in {"DiscreteActuator", "DiscreteSetting"}
IsContinuous(e) == ~IsDiscrete(e)
IsSetting(e) == Class(e) \in {"DiscreteSetting", "ContinuousSetting"}
IsActuator(e) == ~IsSetting(e)

(* self.parent *)
Parent(e) ==
    CASE e = "MyActuator" -> DeviceNode(ExampleDeviceId)
      [] e = "DelaySetting" ->
            ActuatorNode("DiscreteActuator", 1, DeviceNode(ExampleDeviceId))
      [] e \in {"DiscreteActuator", "ContinuousActuator",
                "DiscreteSetting.device", "ContinuousSetting.device"} ->
            DeviceNode(AbstractDeviceId)
      [] e = "DiscreteSetting.detector" ->
            DetectorNode(1, DeviceNode(AbstractDeviceId))
      [] OTHER ->
            ActuatorNode("ContinuousActuator", 1, DeviceNode(AbstractDeviceId))

(* self.actuator_id / self.setting_id *)
EndpointId(e) == 1

isinstance(node, cls) == node.cls = cls

----------------------------------------------------------------------------
(* The drivers: what a subclass supplies for the abstract methods.         *)

(* get_value_options(): MyActuator._position_values; an abstract driver's  *)
(* discrete endpoint has the same two positions.                           *)
get_value_options(e) == <<"off", "on">>

(* Mutant of get_hard_limits: a soft upper limit above the hard one moves  *)
(* the hard limit up.                                                      *)
get_hard_limits_widened(e) ==
    IF soft_limits[e][2] # None /\ Get(soft_limits[e][2]) > 1000
    THEN <<Some(0), soft_limits[e][2]>>
    ELSE <<Some(0), Some(1000)>>

(* get_hard_limits(): DelaySetting._hard_limits = (0., 1e3); the abstract  *)
(* drivers' limits are driver-defined, one of them open below.             *)
get_hard_limits(e) ==
    IF e = "ContinuousSetting.device"
    THEN <<None, Some(1000)>>
    ELSE <<Some(0), Some(1000)>>

(* is_able_to_set(): the values a call may return.  MyActuator and         *)
(* DelaySetting return True; an abstract driver reports its hardware's     *)
(* state, which is either.                                                 *)
is_able_to_set(e) ==
    IF e \in ExampleEndpoints THEN {TRUE} ELSE BOOLEAN

(* Whether the driver write suspends: MyActuator._set_value awaits         *)
(* asyncio.sleep, DelaySetting._set_value has no await that yields; an     *)
(* abstract driver's write is a hardware call that suspends.               *)
Suspends(e) == e # "DelaySetting"

(* wait_time = await self._settings[1].get_value(): the time the driver    *)
(* write of MyActuator sleeps, read from its DelaySetting when the write   *)
(* starts.  No other driver write reads a setting.                         *)
wait_time(e) == IF e = "MyActuator" THEN value["DelaySetting"] ELSE 0

(* Mutant of _set_value: the driver write loses the value. *)
_set_value_lost(e, v) == value

(* _set_value(): the driver stores the value (MyActuator._position,        *)
(* DelaySetting._wait_time) before any suspension.                         *)
_set_value(e, v) == [value EXCEPT ![e] = v]

(* Python list indexing lst[i], 0-based, negative indices from the end.    *)
PyIndex(lst, i) ==
    IF 0 <= i /\ i < Len(lst) THEN lst[i + 1]
    ELSE IF 0 - Len(lst) <= i /\ i < 0 THEN lst[Len(lst) + i + 1]
    ELSE "IndexError"

(* get_value(): what a read of the endpoint returns in the current state.  *)
get_value(e) ==
    IF IsDiscrete(e)
    THEN PyIndex(get_value_options(e), value[e])
    ELSE value[e]

(* Python `x in lst` *)
In(x, lst) == \E k \in 1..Len(lst) : lst[k] = x

----------------------------------------------------------------------------
(* Snapshots (schemas.py) and exceptions (exceptions.py)                   *)

(* DiscreteActuator.info / ContinuousActuator.info *)
ActuatorInfo(e) ==
    [name |-> e, actuator_id |-> EndpointId(e), device_id |-> Parent(e).device_id]

(* DiscreteSetting.info / ContinuousSetting.info *)
SettingInfo(e) ==
    IF isinstance(Parent(e), "AbstractDevice")
    THEN [name |-> e, setting_id |-> EndpointId(e),
          parent_id |-> Parent(e).device_id, grandparent_id |-> None]
    ELSE IF isinstance(Parent(e), "Detector")
    THEN [name |-> e, setting_id |-> EndpointId(e),
          parent_id |-> Parent(e).detector_id,
          grandparent_id |-> Some(Parent(e).parent.device_id)]
    ELSE [name |-> e, setting_id |-> EndpointId(e),
          parent_id |-> Parent(e).actuator_id,
          grandparent_id |-> Some(Parent(e).parent.device_id)]

(* An exception constructor formats its message from attributes of the    *)
(* info object; reading an attribute the object lacks raises              *)
(* AttributeError in place of the exception under construction.           *)
Raise(exc, info_obj, attrs) ==
    IF attrs \subseteq DOMAIN info_obj THEN exc ELSE "AttributeError"

FastMDAatSoftwareLimit(actuator_info) ==
    Raise("FastMDAatSoftwareLimit", actuator_info,
          {"name", "actuator_id", "device_id"})

FastMDAatHardwareLimit(actuator_info) ==
    Raise("FastMDAatHardwareLimit", actuator_info,
          {"name", "actuator_id", "device_id"})

FastMDAatHardSettingLimit(setting_info) ==
    Raise("FastMDAatHardSettingLimit", setting_info,
          {"name", "actuator_id", "parent_id", "grandparent_id"})

FastMDAatSoftSettingLimit(setting_info) ==
    Raise("FastMDAatSoftSettingLimit", setting_info,
          {"name", "actuator_id", "parent_id", "grandparent_id"})

----------------------------------------------------------------------------
(* The set algorithm of the four endpoint classes.  Each operator gives    *)
(* the way the call leaves the gate: [exc, device_id] for a raise, or      *)
(* exc = "_set_value" when it goes on to the driver write.  `able` is      *)
(* what is_able_to_set() returned.                                         *)

Raised(exc) == [exc |-> exc, device_id |-> 0]
(* FastMDAisBusy(device_id) *)
FastMDAisBusy(device_id) == [exc |-> "FastMDAisBusy", device_id |-> device_id]
Write == [exc |-> "_set_value", device_id |-> 0]

(* Mutant of SettingDeviceId: the id of the parent itself, not of the      *)
(* Device above it.                                                        *)
SettingDeviceId_parent_id(e) ==
    IF isinstance(Parent(e), "AbstractDevice") THEN Parent(e).device_id
    ELSE IF isinstance(Parent(e), "Detector") THEN Parent(e).detector_id
    ELSE Parent(e).actuator_id

(* The device_id a setting passes to FastMDAisBusy *)
SettingDeviceId(e) ==
    IF isinstance(Parent(e), "AbstractDevice")
    THEN Parent(e).device_id
    ELSE Parent(e).parent.device_id

DiscreteSetting_set_value(e, value_index, able) ==
    IF ~able THEN FastMDAisBusy(SettingDeviceId(e))
    ELSE IF value_index >= Len(get_value_options(e))
    THEN Raised(FastMDAatHardSettingLimit(SettingInfo(e)))
    ELSE IF In(value_index, invalid[e])
    THEN Raised(FastMDAatSoftSettingLimit(SettingInfo(e)))
    ELSE Write

(* Mutant of ContinuousSetting_set_value: soft limits, once set, stand in   *)
(* for the hard limits.                                                    *)
ContinuousSetting_set_value_soft_instead(e, v, able) ==
    IF ~able THEN FastMDAisBusy(SettingDeviceId(e))
    ELSE IF soft_limits[e] = <<None, None>> /\ ~within_limit(v, get_hard_limits(e))
    THEN Raised(FastMDAatHardSettingLimit(SettingInfo(e)))
    ELSE IF within_limit(v, soft_limits[e])
    THEN Write
    ELSE Raised(FastMDAatSoftSettingLimit(SettingInfo(e)))

ContinuousSetting_set_value(e, v, able) ==
    IF ~able THEN FastMDAisBusy(SettingDeviceId(e))
    ELSE IF ~within_limit(v, get_hard_limits(e))
    THEN Raised(FastMDAatHardSettingLimit(SettingInfo(e)))
    ELSE IF within_limit(v, soft_limits[e])
    THEN Write
    ELSE Raised(FastMDAatSoftSettingLimit(SettingInfo(e)))

DiscreteActuator_set_value(e, value_index, able) ==
    IF ~able THEN FastMDAisBusy(Parent(e).device_id)
    ELSE IF value_index >= Len(get_value_options(e))
    THEN Raised(FastMDAatHardwareLimit(ActuatorInfo(e)))
    ELSE IF In(value_index, invalid[e])
    THEN Raised(FastMDAatSoftwareLimit(ActuatorInfo(e)))
    ELSE Write

(* Mutant of ContinuousActuator_set_value: the hard-limit check ahead of   *)
(* the busy check.                                                         *)
ContinuousActuator_set_value_hard_first(e, v, able) ==
    IF ~within_limit(v, get_hard_limits(e))
    THEN Raised(FastMDAatHardwareLimit(ActuatorInfo(e)))
    ELSE IF ~able THEN FastMDAisBusy(Parent(e).device_id)
    ELSE IF within_limit(v, soft_limits[e])
    THEN Write
    ELSE Raised(FastMDAatSoftwareLimit(ActuatorInfo(e)))

ContinuousActuator_set_value(e, v, able) ==
    IF ~able THEN FastMDAisBusy(Parent(e).device_id)
    ELSE IF ~within_limit(v, get_hard_limits(e))
    THEN Raised(FastMDAatHardwareLimit(ActuatorInfo(e)))
    ELSE IF within_limit(v, soft_limits[e])
    THEN Write
    ELSE Raised(FastMDAatSoftwareLimit(ActuatorInfo(e)))

set_value(e, candidate, able) ==
    CASE Class(e) = "DiscreteSetting" -> DiscreteSetting_set_value(e, candidate, able)
      [] Class(e) = "ContinuousSetting" -> ContinuousSetting_set_value(e, candidate, able)
      [] Class(e) = "DiscreteActuator" -> DiscreteActuator_set_value(e, candidate, able)
      [] OTHER -> ContinuousActuator_set_value(e, candidate, able)

----------------------------------------------------------------------------
(* Inputs of the calls *)

(* candidate indices of a discrete set_value: a negative one, the legal    *)
(* ones and one past the end                                               *)
Indices == -1 .. Len(get_value_options("MyActuator"))

(* indices given to set_invalid_value / set_valid_value: a negative one    *)
(* and the legal ones (an index past the end can be marked too, and is     *)
(* never consulted: set_value rejects it at the hard limit)                *)
MarkIndices == -1 .. (Len(get_value_options("MyActuator")) - 1)

(* candidate values of a continuous set_value *)
Values == {-1, 0, 100, 500, 1001}

(* arguments of set_soft_limits *)
LimitPairs ==
    {<<None, None>>, <<Some(0), Some(100)>>, <<Some(-10), Some(2000)>>,
     <<None, Some(100)>>, <<Some(100), None>>, <<Some(100), Some(0)>>,
     <<Some(2000), Some(3000)>>}

Candidates(e) == IF IsDiscrete(e) THEN Indices ELSE Values

(* values given to the DelaySetting of MyActuator: no delay, and a delay   *)
(* longer than set_timeout                                                 *)
WaitTimes == {0, 100}

----------------------------------------------------------------------------
(* The server process before startup *)

(* A dict with no entry. *)
EmptyDict == [k \in {} |-> k]

(* fastmda.device_types as shipped: the example driver alone. *)
Shipped == {"example_device"}

(* globals.py as imported, the device_info table empty: no registry entry, *)
(* no live device, the startup handler not yet run.                        *)
globals ==
    /\ installed = Shipped
    /\ phase = "boot"
    /\ device_types_info = EmptyDict
    /\ device_types_modules = EmptyDict
    /\ device_dict = EmptyDict
    /\ db = <<>>

----------------------------------------------------------------------------
(* State *)

(* A step's record: the operation, its argument, what is_able_to_set()      *)
(* returned, the outcome ("ok", "suspended" in the driver write, or the     *)
(* exception raised), the device_id an exception carries, whether the       *)
(* driver write was invoked, and for a return whether no other write        *)
(* overlapped the call.                                                     *)
Step(op, arg, able, outcome, device_id, wrote, alone) ==
    [op |-> op, arg |-> arg, able |-> able, outcome |-> outcome,
     device_id |-> device_id, wrote |-> wrote, alone |-> alone]

(* __Value / __DiscreteValue / __ContinuousValue __init__, MyActuator and  *)
(* DelaySetting __init__ *)
Init ==
    /\ driven \in Endpoints
    /\ value = [e \in Endpoints |-> 0]
    /\ invalid = [e \in Endpoints |-> <<>>]
    /\ soft_limits = [e \in Endpoints |-> <<None, None>>]
    /\ inflight = EmptyBag
    /\ last = Step("__init__", 0, TRUE, "ok", 0, FALSE, TRUE)
    /\ globals

(* A suspended call: its candidate, whether no other write of the         *)
(* endpoint has overlapped it, and the wait_time its driver write sleeps.  *)
Call(arg, alone, wait) ==
    [arg |-> arg, alone |-> alone, wait_time |-> wait]

(* Every suspended call is overlapped by a further write. *)
Overlapped(calls) ==
    LET marked == {Call(c.arg, FALSE, c.wait_time) : c \in BagToSet(calls)}
    IN [c \in marked |-> CopiesIn(Call(c.arg, TRUE, c.wait_time), calls)
                           + CopiesIn(Call(c.arg, FALSE, c.wait_time), calls)]

(* Mutant of SetValue: the gate refuses a write to an endpoint of a device  *)
(* that is not connected.                                                  *)
SetValue_connected_only(e, candidate, able) ==
    /\ BagCardinality(inflight) < NumTasks
    /\ LET r == set_value(e, candidate, able)
           connected == \A id \in DOMAIN device_dict \cap {ExampleDeviceId} :
                           device_dict[id]._is_connected
       IN
       IF r.exc = "_set_value" /\ connected
       THEN /\ value' = _set_value(e, candidate)
            /\ inflight' =
                 IF Suspends(e)
                 THEN Overlapped(inflight)
                        (+) SetToBag({Call(candidate, inflight = EmptyBag,
                                           wait_time(e))})
                 ELSE Overlapped(inflight)
            /\ last' = Step("set_value", candidate, able,
                            IF Suspends(e) THEN "suspended" ELSE "ok", 0, TRUE,
                            inflight = EmptyBag)
       ELSE /\ UNCHANGED <<value, inflight>>
            /\ last' = Step("set_value", candidate, able,
                            IF r.exc = "_set_value" THEN "FastMDAConnectFailed"
                            ELSE r.exc,
                            r.device_id, FALSE, inflight = EmptyBag)
    /\ UNCHANGED <<driven, invalid, soft_limits>>
    /\ UNCHANGED server_vars

(* Mutant of SetValue: the candidate is stored before the gate is passed. *)
SetValue_store_first(e, candidate, able) ==
    /\ BagCardinality(inflight) < NumTasks
    /\ value' = _set_value(e, candidate)
    /\ LET r == set_value(e, candidate, able) IN
       IF r.exc = "_set_value"
       THEN /\ inflight' =
                 IF Suspends(e)
                 THEN Overlapped(inflight)
                        (+) SetToBag({Call(candidate, inflight = EmptyBag,
                                           wait_time(e))})
                 ELSE Overlapped(inflight)
            /\ last' = Step("set_value", candidate, able,
                            IF Suspends(e) THEN "suspended" ELSE "ok", 0, TRUE,
                            inflight = EmptyBag)
       ELSE /\ UNCHANGED inflight
            /\ last' = Step("set_value", candidate, able,
                            r.exc, r.device_id, FALSE, inflight = EmptyBag)
    /\ UNCHANGED <<driven, invalid, soft_limits>>
    /\ UNCHANGED server_vars

(* A task calls driven.set_value(candidate): the gate, then the driver     *)
(* write up to its suspension point (or to its end when it does not        *)
(* suspend).                                                               *)
SetValue(e, candidate, able) ==
    /\ BagCardinality(inflight) < NumTasks
    /\ LET r == set_value(e, candidate, able) IN
       IF r.exc = "_set_value"
       THEN /\ value' = _set_value(e, candidate)
            /\ inflight' =
                 IF Suspends(e)
                 THEN Overlapped(inflight)
                        (+) SetToBag({Call(candidate, inflight = EmptyBag,
                                           wait_time(e))})
                 ELSE Overlapped(inflight)
            /\ last' = Step("set_value", candidate, able,
                            IF Suspends(e) THEN "suspended" ELSE "ok", 0, TRUE,
                            inflight = EmptyBag)
       ELSE /\ UNCHANGED <<value, inflight>>
            /\ last' = Step("set_value", candidate, able,
                            r.exc, r.device_id, FALSE, inflight = EmptyBag)
    /\ UNCHANGED <<driven, invalid, soft_limits>>
    /\ UNCHANGED server_vars

(* The suspended driver write of a call finishes and set_value returns.    *)
SetValueReturn(call) ==
    /\ BagIn(call, inflight)
    /\ inflight' = inflight (-) SetToBag({call})
    /\ last' = Step("set_value_return", call.arg, TRUE, "ok", 0, FALSE, call.alone)
    /\ UNCHANGED <<driven, value, invalid, soft_limits>>
    /\ UNCHANGED server_vars

(* routers/actuators.py: the bound, in seconds, that set_actuator_value    *)
(* and set_actuator_setting_value put on set_value with asyncio.wait_for.  *)
set_timeout == 5

(* The endpoints whose set route bounds the call: the actuators and the    *)
(* settings of an actuator.                                                *)
HasSetTimeout(e) ==
    \/ IsActuator(e)
    \/ Parent(e).cls \in {"DiscreteActuator", "ContinuousActuator"}

(* Whether a suspended driver write can outlast set_timeout: MyActuator    *)
(* sleeps wait_time seconds; the duration of an abstract driver's          *)
(* hardware call is not known.                                             *)
OutlastsTimeout(e, call) ==
    IF e = "MyActuator" THEN call.wait_time > set_timeout ELSE TRUE

(* set_actuator_value: the answer of the handler to the way              *)
(* asyncio.wait_for(actuator.set_value(value), timeout=set_timeout) ended:  *)
(* the status of the response, or 0 with the exception that leaves the      *)
(* handler when no except clause matches it.  After a set that returned     *)
(* the handler reads the value back under get_timeout.                      *)
set_actuator_value(outcome, read_in_time) ==
    CASE outcome = "ok" ->
            [status |-> IF read_in_time THEN 200 ELSE 504, exc |-> "HTTPException"]
      [] outcome = "KeyError" -> [status |-> 404, exc |-> "HTTPException"]
      [] outcome = "FastMDAisBusy" -> [status |-> 423, exc |-> "HTTPException"]
      [] outcome = "FastMDAatHardSettingLimit" ->
            [status |-> 406, exc |-> "HTTPException"]
      [] outcome = "FastMDAatSoftSettingLimit" ->
            [status |-> 406, exc |-> "HTTPException"]
      [] outcome = "TimeoutError" -> [status |-> 504, exc |-> "HTTPException"]
      [] OTHER -> [status |-> 0, exc |-> outcome]

(* Mutant of SetValueTimeout: the timeout rolls the stored value back. *)
SetValueTimeout_undo(call) ==
    /\ HasSetTimeout(driven)
    /\ BagIn(call, inflight)
    /\ OutlastsTimeout(driven, call)
    /\ inflight' = inflight (-) SetToBag({call})
    /\ value' = [value EXCEPT ![driven] = 0]
    /\ last' = Step("set_value_timeout", call.arg, TRUE, "TimeoutError", 0,
                    FALSE, call.alone)
    /\ UNCHANGED <<driven, invalid, soft_limits>>
    /\ UNCHANGED server_vars

(* asyncio.wait_for(set_value(value), timeout=set_timeout) runs out: the   *)
(* suspended driver write is cancelled where it waits and the caller gets  *)
(* asyncio.TimeoutError.  What the write stored before it suspended stays. *)
SetValueTimeout(call) ==
    /\ HasSetTimeout(driven)
    /\ BagIn(call, inflight)
    /\ OutlastsTimeout(driven, call)
    /\ inflight' = inflight (-) SetToBag({call})
    /\ last' = Step("set_value_timeout", call.arg, TRUE, "TimeoutError", 0,
                    FALSE, call.alone)
    /\ UNCHANGED <<driven, value, invalid, soft_limits>>
    /\ UNCHANGED server_vars

(* A task sets the DelaySetting of MyActuator, settings[1].set_value(v):   *)
(* the gate of ContinuousSetting, then DelaySetting._set_value, which      *)
(* does not suspend.                                                       *)
SetSettingValue(e, v) ==
    /\ e = "MyActuator"
    /\ LET r == set_value("DelaySetting", v, TRUE) IN
       /\ value' = IF r.exc = "_set_value"
                   THEN _set_value("DelaySetting", v) ELSE value
       /\ last' = Step("settings.set_value", v, TRUE,
                       IF r.exc = "_set_value" THEN "ok" ELSE r.exc,
                       r.device_id, r.exc = "_set_value", TRUE)
    /\ UNCHANGED <<driven, invalid, soft_limits, inflight>>
    /\ UNCHANGED server_vars

(* __DiscreteValue.set_invalid_value *)
set_invalid_value(lst, invalid_value_index) ==
    IF ~In(invalid_value_index, lst)
    THEN Append(lst, invalid_value_index)
    ELSE lst

SetInvalidValue(e, i) ==
    /\ IsDiscrete(e)
    /\ Len(set_invalid_value(invalid[e], i)) <= MaxInvalid
    /\ invalid' = [invalid EXCEPT ![e] = set_invalid_value(invalid[e], i)]
    /\ last' = Step("set_invalid_value", i, TRUE, "ok", 0, FALSE, TRUE)
    /\ UNCHANGED <<driven, value, soft_limits, inflight>>
    /\ UNCHANGED server_vars

(* Python lst.remove(x): the list without its first x, or ValueError when  *)
(* x is not in lst.                                                        *)
list_remove(lst, x) ==
    IF In(x, lst)
    THEN LET k == CHOOSE j \in 1..Len(lst) :
                      lst[j] = x /\ \A h \in 1..(j - 1) : lst[h] # x
         IN [lst |-> SubSeq(lst, 1, k - 1) \o SubSeq(lst, k + 1, Len(lst)),
             outcome |-> "ok"]
    ELSE [lst |-> lst, outcome |-> "ValueError"]

(* __DiscreteValue.set_valid_value: the list after the call and the        *)
(* outcome.                                                                *)
set_valid_value(lst, valid_value_index) ==
    IF ~In(valid_value_index, lst)
    THEN list_remove(lst, valid_value_index)
    ELSE [lst |-> lst, outcome |-> "ok"]

SetValidValue(e, i) ==
    /\ IsDiscrete(e)
    /\ invalid' = [invalid EXCEPT ![e] = set_valid_value(invalid[e], i).lst]
    /\ last' = Step("set_valid_value", i, TRUE,
                    set_valid_value(invalid[e], i).outcome, 0, FALSE, TRUE)
    /\ UNCHANGED <<driven, value, soft_limits, inflight>>
    /\ UNCHANGED server_vars

(* __ContinuousValue.get_soft_limits *)
get_soft_limits(e) == soft_limits[e]

(* Mutant of SetSoftLimits: a pair that is not an interval within the      *)
(* hard limits is refused.                                                 *)
SetSoftLimits_validated(e, limits) ==
    /\ IsContinuous(e)
    /\ LET valid == /\ \A lo \in limits[1] : within_limit(lo, get_hard_limits(e))
                    /\ \A hi \in limits[2] : within_limit(hi, get_hard_limits(e))
                    /\ \A lo \in limits[1], hi \in limits[2] : lo <= hi
       IN /\ soft_limits' = IF valid THEN [soft_limits EXCEPT ![e] = limits]
                            ELSE soft_limits
          /\ last' = Step("set_soft_limits", limits, TRUE,
                          IF valid THEN "ok" ELSE "ValueError", 0, FALSE, TRUE)
    /\ UNCHANGED <<driven, value, invalid, inflight>>
    /\ UNCHANGED server_vars

(* __ContinuousValue.set_soft_limits *)
SetSoftLimits(e, limits) ==
    /\ IsContinuous(e)
    /\ soft_limits' = [soft_limits EXCEPT ![e] = limits]
    /\ last' = Step("set_soft_limits", limits, TRUE, "ok", 0, FALSE, TRUE)
    /\ UNCHANGED <<driven, value, invalid, inflight>>
    /\ UNCHANGED server_vars

Next ==
    \/ \E candidate \in Candidates(driven), able \in is_able_to_set(driven) :
         SetValue(driven, candidate, able)
    \/ \E call \in BagToSet(inflight) : SetValueReturn(call)
    \/ \E call \in BagToSet(inflight) : SetValueTimeout(call)
    \/ \E v \in WaitTimes : SetSettingValue(driven, v)
    \/ \E i \in MarkIndices : SetInvalidValue(driven, i)
    \/ \E i \in MarkIndices : SetValidValue(driven, i)
    \/ \E limits \in LimitPairs : SetSoftLimits(driven, limits)

Spec == Init /\ [][Next]_vars

----------------------------------------------------------------------------
(* The server: the driver packages and the Device objects                  *)

MaxDevices == 2    \* cap on the number of records in the device_info table

(* The driver packages that may be present in fastmda.device_types, in the *)
(* order iter_modules lists them (sorted by name): the shipped example     *)
(* driver; lab_device, a driver that implements AbstractDevice for real    *)
(* hardware and has a detector; and four packages that are not drivers:    *)
(* one without its <name>.<name> module, one whose import raises           *)
(* ImportError, one without a Device class, and one whose                  *)
(* Device.device_type is not callable.                                     *)
ModuleNames ==
    <<"bad_device_type", "broken_import", "example_device", "lab_device",
      "missing_module", "no_device">>

iter_modules(present) == SelectSeq(ModuleNames, LAMBDA m : m \in present)

(* The contents of fastmda.device_types a server process may start with. *)
Deployments ==
    {Shipped,
     {"example_device", "lab_device"},
     {"example_device", "lab_device", "no_device"},
     {"bad_device_type", "example_device"},
     {"example_device", "missing_module"},
     {"broken_import", "example_device"}}

(* importlib.import_module(module_name): "ok" or the exception raised. *)
import_module(m) ==
    CASE m = "missing_module" -> "ModuleNotFoundError"
      [] m = "broken_import" -> "ImportError"
      [] OTHER -> "ok"

(* device_module.Device.device_type(): the DeviceType (its name), or the   *)
(* exception raised.                                                       *)
device_type(m) ==
    CASE m = "no_device" -> "AttributeError"
      [] m = "bad_device_type" -> "TypeError"
      [] m = "example_device" -> "Example device"
      [] OTHER -> "Lab device"

(* device_module.Device(device_id, **args): Device.__init__(self,          *)
(* device_id, com_port) of the example driver, and of lab_device alike.    *)
(* Keyword arguments other than com_port raise TypeError.                  *)
Device(m, device_id, args) ==
    IF DOMAIN args = {"com_port"}
    THEN [exc |-> "ok",
          device |-> [module |-> m, device_id |-> device_id,
                      com_port |-> args.com_port, _is_connected |-> FALSE]]
    ELSE [exc |-> "TypeError",
          device |-> [module |-> m, device_id |-> device_id,
                      com_port |-> "", _is_connected |-> FALSE]]

is_connected(device) == device._is_connected

(* What a driver call raised: nothing, or FastMDAConnectFailed /           *)
(* FastMDADisconnectFailed(device, device_id, message), whose message      *)
(* names device.name and device_id.                                        *)
NoException == [exc |-> "none", name |-> "", device_id |-> 0]
FastMDAConnectFailed(device, device_id) ==
    [exc |-> "FastMDAConnectFailed", name |-> device, device_id |-> device_id]
FastMDADisconnectFailed(device, device_id) ==
    [exc |-> "FastMDADisconnectFailed", name |-> device, device_id |-> device_id]

(* Mutant of connect: a connection that fails returns False. *)
connect_returns_false(device, hw_ok) ==
    IF (device.module = "example_device" /\ device.com_port = "COM1")
       \/ (device.module # "example_device" /\ hw_ok)
    THEN [device |-> [device EXCEPT !._is_connected = TRUE],
          returned |-> TRUE, raised |-> NoException]
    ELSE [device |-> device, returned |-> FALSE, raised |-> NoException]

(* Device.connect(): the device after the call, the value returned and     *)
(* the exception raised.  The example driver connects on COM1 only;        *)
(* lab_device connects when its hardware answers (hw_ok).                  *)
connect(device, hw_ok) ==
    IF (device.module = "example_device" /\ device.com_port = "COM1")
       \/ (device.module # "example_device" /\ hw_ok)
    THEN [device |-> [device EXCEPT !._is_connected = TRUE],
          returned |-> TRUE, raised |-> NoException]
    ELSE [device |-> device, returned |-> FALSE,
          raised |-> FastMDAConnectFailed(device_type(device.module),
                                          device.device_id)]

(* Device.disconnect(): the example driver always disconnects; lab_device  *)
(* raises FastMDADisconnectFailed when its hardware does not answer.       *)
disconnect(device, hw_ok) ==
    IF device.module = "example_device" \/ hw_ok
    THEN [device |-> [device EXCEPT !._is_connected = FALSE],
          returned |-> TRUE, raised |-> NoException]
    ELSE [device |-> device, returned |-> FALSE,
          raised |-> FastMDADisconnectFailed(device_type(device.module),
                                             device.device_id)]

(* The data arrays the detector hardware of lab_device may deliver. *)
Frames == {"dark", "signal"}

(* Detector._acquire(): the driver routine returns the hardware's frame. *)
_acquire(frame) == frame

(* Mutant of acquire: the driver routine is invoked without the check. *)
acquire_unchecked(detector, able, frame) ==
    [outcome |-> "ok", device_id |-> 0, invoked |-> 1,
     result |-> _acquire(frame)]

(* Detector.acquire(): `able` is what is_able_to_acquire() returned;       *)
(* `invoked` counts the invocations of _acquire.                           *)
acquire(detector, able, frame) ==
    IF able
    THEN [outcome |-> "ok", device_id |-> 0, invoked |-> 1,
          result |-> _acquire(frame)]
    ELSE [outcome |-> FastMDAisBusy(detector.parent.device_id).exc,
          device_id |-> FastMDAisBusy(detector.parent.device_id).device_id,
          invoked |-> 0, result |-> ""]

----------------------------------------------------------------------------
(* The server: startup, the device routes and shutdown                     *)

(* What a handler or event did: the operation, its input, the exception    *)
(* that left it ("ok" for none, "HTTPException" with the status of the     *)
(* response), and what it returned or met on the way.                      *)
Reply(op, arg, outcome, status, result) ==
    [op |-> op, arg |-> arg, outcome |-> outcome, status |-> status,
     result |-> result]

(* Mutant of discover: a package that is not a driver is passed over. *)
RECURSIVE discover_passing_over(_, _)
discover_passing_over(modules, reg) ==
    IF modules = <<>> THEN reg
    ELSE LET m == Head(modules) IN
         IF import_module(m) # "ok"
            \/ device_type(m) \in {"AttributeError", "TypeError"}
         THEN discover_passing_over(Tail(modules), reg)
         ELSE discover_passing_over(Tail(modules),
                [reg EXCEPT !.info = (m :> device_type(m)) @@ reg.info,
                            !.modules = (m :> m) @@ reg.modules])

(* build_device_dict, the loop over iter_modules: the two registries       *)
(* filled up to the first package that fails, and the exception raised.    *)
RECURSIVE discover(_, _)
discover(modules, reg) ==
    IF modules = <<>> THEN reg
    ELSE LET m == Head(modules) IN
         IF import_module(m) = "ModuleNotFoundError"
         THEN [reg EXCEPT !.exc = "FastMDAModuleError"]
         ELSE IF import_module(m) # "ok"
         THEN [reg EXCEPT !.exc = import_module(m)]
         ELSE IF device_type(m) \in {"AttributeError", "TypeError"}
         THEN [reg EXCEPT !.exc = "FastMDAImplementationError"]
         ELSE discover(Tail(modules),
                [reg EXCEPT !.info = (m :> device_type(m)) @@ reg.info,
                            !.modules = (m :> m) @@ reg.modules])

(* crud.get_device_infos(db, limit=999) *)
limit == 999

(* Mutant of instantiate: a record whose factory fails is skipped. *)
RECURSIVE instantiate_skipping(_, _, _, _)
instantiate_skipping(id, modules, devices, records) ==
    IF id > Len(records) \/ id > limit
    THEN [device_dict |-> devices, db |-> records, exc |-> "ok"]
    ELSE IF records[id].device_type \notin DOMAIN modules
    THEN [device_dict |-> devices, db |-> records, exc |-> "KeyError"]
    ELSE LET made == Device(modules[records[id].device_type], id,
                            records[id].args) IN
         IF made.exc # "ok"
         THEN instantiate_skipping(id + 1, modules, devices, records)
         ELSE instantiate_skipping(id + 1, modules,
                (id :> made.device) @@ devices,
                [records EXCEPT ![id].is_connected = is_connected(made.device)])

(* build_device_dict, the loop over the records, from record `id` on: the  *)
(* live devices, the records, and the exception raised.                    *)
RECURSIVE instantiate(_, _, _, _)
instantiate(id, modules, devices, records) ==
    IF id > Len(records) \/ id > limit
    THEN [device_dict |-> devices, db |-> records, exc |-> "ok"]
    ELSE IF records[id].device_type \notin DOMAIN modules
    THEN [device_dict |-> devices, db |-> records, exc |-> "KeyError"]
    ELSE LET made == Device(modules[records[id].device_type], id,
                            records[id].args) IN
         IF made.exc # "ok"
         THEN [device_dict |-> devices, db |-> records,
               exc |-> "FastMDAImplementationError"]
         ELSE instantiate(id + 1, modules,
                (id :> made.device) @@ devices,
                [records EXCEPT ![id].is_connected = is_connected(made.device)])

(* @app.on_event("startup") *)
build_device_dict ==
    /\ phase = "boot"
    /\ LET reg == discover(iter_modules(installed),
                           [info |-> device_types_info,
                            modules |-> device_types_modules, exc |-> "ok"])
           inst == IF reg.exc = "ok"
                   THEN instantiate(1, reg.modules, device_dict, db)
                   ELSE [device_dict |-> device_dict, db |-> db, exc |-> reg.exc]
       IN /\ device_types_info' = reg.info
          /\ device_types_modules' = reg.modules
          /\ device_dict' = inst.device_dict
          /\ db' = inst.db
          /\ phase' = IF inst.exc = "ok" THEN "up" ELSE "failed"
          /\ last' = Reply("build_device_dict", installed, inst.exc, 0, reg.exc)
    /\ UNCHANGED <<installed, driven, value, invalid, soft_limits, inflight>>

(* Mutant of get_device_types: the registry is emptied by the read. *)
get_device_types_clearing ==
    /\ phase = "up"
    /\ last' = Reply("get_device_types", 0, "ok", 200, device_types_info)
    /\ device_types_info' = EmptyDict
    /\ UNCHANGED <<installed, phase, device_types_modules, device_dict, db>>
    /\ UNCHANGED <<driven, value, invalid, soft_limits, inflight>>

(* routers/devices.py get_device_types *)
get_device_types ==
    /\ phase = "up"
    /\ last' = Reply("get_device_types", 0, "ok", 200, device_types_info)
    /\ UNCHANGED server_vars
    /\ UNCHANGED <<driven, value, invalid, soft_limits, inflight>>

(* The bodies of add_device requests: a device type and constructor args. *)
DeviceInfoCreate ==
    {[device_type |-> "example_device", args |-> [com_port |-> "COM1"]],
     [device_type |-> "example_device", args |-> [com_port |-> "COM2"]],
     [device_type |-> "example_device", args |-> [port |-> "COM1"]],
     [device_type |-> "lab_device", args |-> [com_port |-> "COM1"]],
     [device_type |-> "no_device", args |-> [com_port |-> "COM1"]]}

(* crud.create_device_info: the new record, its id the next row id. *)
create_device_info(records, device_info) ==
    Append(records, [device_type |-> device_info.device_type,
                     args |-> device_info.args, is_connected |-> FALSE])

(* routers/devices.py add_device *)
add_device(device_info) ==
    /\ phase = "up"
    /\ Len(db) < MaxDevices
    /\ db' = create_device_info(db, device_info)
    /\ LET id == Len(db) + 1 IN
       IF device_info.device_type \notin DOMAIN device_types_modules
       THEN /\ UNCHANGED device_dict
            /\ last' = Reply("add_device", device_info, "KeyError", 0, id)
       ELSE LET made == Device(device_types_modules[device_info.device_type],
                               id, device_info.args) IN
            IF made.exc # "ok"
            THEN /\ UNCHANGED device_dict
                 /\ last' = Reply("add_device", device_info, "HTTPException",
                                 501, id)
            ELSE /\ device_dict' = (id :> made.device) @@ device_dict
                 /\ last' = Reply("add_device", device_info, "ok", 201, id)
    /\ UNCHANGED <<installed, phase, device_types_info, device_types_modules>>
    /\ UNCHANGED <<driven, value, invalid, soft_limits, inflight>>

(* crud.update_device_connection_status *)
update_device_connection_status(records, device_id, connection_status) ==
    IF device_id \in 1..Len(records)
    THEN [records EXCEPT ![device_id].is_connected = connection_status]
    ELSE records

(* Mutant of connect_device: the record is not updated. *)
connect_device_unrecorded(device_id, hw_ok) ==
    /\ phase = "up"
    /\ IF device_id \notin 1..Len(db)
       THEN /\ UNCHANGED <<device_dict, db>>
            /\ last' = Reply("connect_device", device_id, "HTTPException", 404,
                            NoException)
       ELSE IF device_id \notin DOMAIN device_dict
       THEN /\ UNCHANGED <<device_dict, db>>
            /\ last' = Reply("connect_device", device_id, "KeyError", 0,
                            NoException)
       ELSE LET c == connect(device_dict[device_id], hw_ok) IN
            /\ device_dict' = [device_dict EXCEPT ![device_id] = c.device]
            /\ UNCHANGED db
            /\ last' = IF c.raised = NoException
                       THEN Reply("connect_device", device_id, "ok", 200,
                                  [returned |-> c.returned, raised |-> c.raised])
                       ELSE Reply("connect_device", device_id, "HTTPException",
                                  500, [returned |-> c.returned, raised |-> c.raised])
    /\ UNCHANGED <<installed, phase, device_types_info, device_types_modules>>
    /\ UNCHANGED <<driven, value, invalid, soft_limits, inflight>>

(* routers/devices.py connect_device *)
connect_device(device_id, hw_ok) ==
    /\ phase = "up"
    /\ IF device_id \notin 1..Len(db)
       THEN /\ UNCHANGED <<device_dict, db>>
            /\ last' = Reply("connect_device", device_id, "HTTPException", 404,
                            NoException)
       ELSE IF device_id \notin DOMAIN device_dict
       THEN /\ UNCHANGED <<device_dict, db>>
            /\ last' = Reply("connect_device", device_id, "KeyError", 0,
                            NoException)
       ELSE LET c == connect(device_dict[device_id], hw_ok) IN
            /\ device_dict' = [device_dict EXCEPT ![device_id] = c.device]
            /\ db' = IF c.raised = NoException /\ c.returned
                     THEN update_device_connection_status(db, device_id,
                                                          is_connected(c.device))
                     ELSE db
            /\ last' = IF c.raised = NoException
                       THEN Reply("connect_device", device_id, "ok", 200,
                                  [returned |-> c.returned, raised |-> c.raised])
                       ELSE Reply("connect_device", device_id, "HTTPException",
                                  500, [returned |-> c.returned, raised |-> c.raised])
    /\ UNCHANGED <<installed, phase, device_types_info, device_types_modules>>
    /\ UNCHANGED <<driven, value, invalid, soft_limits, inflight>>

(* routers/devices.py disconnect_device: its except clauses name           *)
(* NotImplementedError and FastMDAConnectFailed.                           *)
disconnect_device(device_id, hw_ok) ==
    /\ phase = "up"
    /\ IF device_id \notin 1..Len(db)
       THEN /\ UNCHANGED <<device_dict, db>>
            /\ last' = Reply("disconnect_device", device_id, "HTTPException",
                            404, NoException)
       ELSE IF device_id \notin DOMAIN device_dict
       THEN /\ UNCHANGED <<device_dict, db>>
            /\ last' = Reply("disconnect_device", device_id, "KeyError", 0,
                            NoException)
       ELSE LET d == disconnect(device_dict[device_id], hw_ok) IN
            /\ device_dict' = [device_dict EXCEPT ![device_id] = d.device]
            /\ db' = IF d.raised = NoException /\ d.returned
                     THEN update_device_connection_status(db, device_id,
                                                          is_connected(d.device))
                     ELSE db
            /\ last' = IF d.raised = NoException
                       THEN Reply("disconnect_device", device_id, "ok", 200,
                                  [returned |-> d.returned, raised |-> d.raised])
                       ELSE IF d.raised.exc = "FastMDAConnectFailed"
                       THEN Reply("disconnect_device", device_id,
                                  "HTTPException", 500,
                                  [returned |-> d.returned, raised |-> d.raised])
                       ELSE Reply("disconnect_device", device_id, d.raised.exc,
                                  0, [returned |-> d.returned, raised |-> d.raised])
    /\ UNCHANGED <<installed, phase, device_types_info, device_types_modules>>
    /\ UNCHANGED <<driven, value, invalid, soft_limits, inflight>>

(* Device.settings: the example Device has none; lab_device has one        *)
(* device-level setting, a ContinuousSetting, under id 1.                  *)
settings(device) ==
    IF device.module = "example_device"
    THEN EmptyDict
    ELSE (1 :> "ContinuousSetting.device")

(* A coroutine object: the result of calling an async method without       *)
(* awaiting it.  The body of the method has not run.                       *)
coroutine(method) == [coroutine |-> method]

(* routers/devices.py set_device_setting_value.  The handler calls         *)
(* set_value(value) and get_value() without await: each call makes a       *)
(* coroutine object and runs nothing of the method, so no exception of the *)
(* set algorithm can reach the except clauses, and the handler returns the *)
(* coroutine object of get_value() (200 is the status of the route for a   *)
(* handler that returned).  `able` is what is_able_to_set() of the setting *)
(* would return.                                                           *)
set_device_setting_value(v, device_id, setting_id, able) ==
    /\ phase = "up"
    /\ LET arg == [value |-> v, device_id |-> device_id,
                   setting_id |-> setting_id, able |-> able]
       IN last' =
            IF device_id \notin DOMAIN device_dict
            THEN Reply("set_device_setting_value", arg, "HTTPException", 404,
                       coroutine("none"))
            ELSE IF setting_id \notin DOMAIN settings(device_dict[device_id])
            THEN Reply("set_device_setting_value", arg, "HTTPException", 404,
                       coroutine("none"))
            ELSE Reply("set_device_setting_value", arg, "ok", 200,
                       coroutine("get_value"))
    /\ UNCHANGED server_vars
    /\ UNCHANGED <<driven, value, invalid, soft_limits, inflight>>

(* disconnect_devices, the loop over device_dict from `device_id` on       *)
(* (the dict is filled in the order of the ids): the devices and the       *)
(* records when the loop ends, the devices it called disconnect() on, and  *)
(* the exception that ended it.  `failing` are the devices whose           *)
(* hardware does not answer.                                               *)
RECURSIVE disconnect_loop(_, _, _, _, _)
disconnect_loop(device_id, devices, records, failing, attempted) ==
    IF device_id > Len(records)
    THEN [device_dict |-> devices, db |-> records, attempted |-> attempted,
          exc |-> "ok"]
    ELSE IF device_id \notin DOMAIN devices
    THEN disconnect_loop(device_id + 1, devices, records, failing, attempted)
    ELSE LET d == disconnect(devices[device_id], device_id \notin failing) IN
         IF d.raised # NoException
         THEN [device_dict |-> devices, db |-> records,
               attempted |-> attempted \cup {device_id}, exc |-> d.raised.exc]
         ELSE disconnect_loop(device_id + 1,
                [devices EXCEPT ![device_id] = d.device],
                update_device_connection_status(records, device_id, FALSE),
                failing, attempted \cup {device_id})

(* @app.on_event("shutdown") *)
disconnect_devices(failing) ==
    /\ phase = "up"
    /\ LET r == disconnect_loop(1, device_dict, db, failing, {}) IN
       /\ device_dict' = r.device_dict
       /\ db' = r.db
       /\ last' = Reply("disconnect_devices", failing, r.exc, 0, r.attempted)
    /\ phase' = "down"
    /\ UNCHANGED <<installed, device_types_info, device_types_modules>>
    /\ UNCHANGED <<driven, value, invalid, soft_limits, inflight>>

(* A new server process is started on the same database, fastmda.          *)
(* device_types holding `present`: globals.py is imported anew, so the     *)
(* registries and device_dict are empty and no Device object exists.       *)
Restart(present) ==
    /\ phase \in {"down", "failed"}
    /\ installed' = present
    /\ phase' = "boot"
    /\ device_types_info' = EmptyDict
    /\ device_types_modules' = EmptyDict
    /\ device_dict' = EmptyDict
    /\ value' = [e \in Endpoints |-> 0]
    /\ last' = Reply("restart", present, "ok", 0, 0)
    /\ UNCHANGED <<db, driven, invalid, soft_limits, inflight>>

(* Mutant of Acquire: acquiring marks the device as connected. *)
Acquire_connecting(device_id, able, frame) ==
    /\ phase = "up"
    /\ device_id \in DOMAIN device_dict
    /\ device_dict[device_id].module = "lab_device"
    /\ LET r == acquire(DetectorNode(1, DeviceNode(device_id)), able, frame) IN
       last' = Reply("acquire", [able |-> able, frame |-> frame, id |-> device_id],
                     r.outcome, 0, r)
    /\ device_dict' = [device_dict EXCEPT ![device_id]._is_connected = TRUE]
    /\ UNCHANGED <<installed, phase, device_types_info, device_types_modules, db>>
    /\ UNCHANGED <<driven, value, invalid, soft_limits, inflight>>

(* The live devices of a driver package. *)
LiveDevices(m) ==
    {id \in DOMAIN device_dict : device_dict[id].module = m}

(* The detector of a live lab_device acquires: Detector.acquire(). *)
Acquire(device_id, able, frame) ==
    /\ phase = "up"
    /\ device_id \in LiveDevices("lab_device")
    /\ LET r == acquire(DetectorNode(1, DeviceNode(device_id)), able, frame) IN
       last' = Reply("acquire", [able |-> able, frame |-> frame, id |-> device_id],
                     r.outcome, 0, r)
    /\ UNCHANGED server_vars
    /\ UNCHANGED <<driven, value, invalid, soft_limits, inflight>>

(* A set on an endpoint of the live example device: the DelaySetting of    *)
(* its actuator.                                                           *)
SetLiveSettingValue(v) ==
    /\ phase = "up"
    /\ ExampleDeviceId \in LiveDevices("example_device")
    /\ SetSettingValue(driven, v)

(* The setting ids of the requests: the id of the setting and one no       *)
(* device has.                                                             *)
SettingIds == {1, 2}

(* The values of the device-setting requests: one within and one beyond    *)
(* the hard limits of the setting.                                         *)
SettingValues == {100, 1001}

ServerInit ==
    /\ driven = "MyActuator"
    /\ value = [e \in Endpoints |-> 0]
    /\ invalid = [e \in Endpoints |-> <<>>]
    /\ soft_limits = [e \in Endpoints |-> <<None, None>>]
    /\ inflight = EmptyBag
    /\ last = Reply("import", 0, "ok", 0, 0)
    /\ globals

ServerNext ==
    \/ build_device_dict
    \/ get_device_types
    \/ \E device_info \in DeviceInfoCreate : add_device(device_info)
    \/ \E device_id \in 1..MaxDevices, hw_ok \in BOOLEAN :
         connect_device(device_id, hw_ok)
    \/ \E device_id \in 1..MaxDevices, hw_ok \in BOOLEAN :
         disconnect_device(device_id, hw_ok)
    \/ \E failing \in SUBSET LiveDevices("lab_device") : disconnect_devices(failing)
    \/ \E present \in Deployments : Restart(present)
    \/ \E device_id \in 1..MaxDevices, able \in BOOLEAN, frame \in Frames :
         Acquire(device_id, able, frame)
    \/ \E v \in WaitTimes : SetLiveSettingValue(v)
    \/ \E v \in SettingValues, device_id \in 1..MaxDevices,
          setting_id \in SettingIds, able \in BOOLEAN :
         set_device_setting_value(v, device_id, setting_id, able)

ServerSpec == ServerInit /\ [][ServerNext]_vars

----------------------------------------------------------------------------
(* A running server with one device, and the endpoints of that device     *)

(* The driver packages of the running server. *)
LiveDeployment == {"example_device", "lab_device"}

(* The add_device request that made the device: an example device on COM1  *)
(* or COM2, or a lab device.                                               *)
LiveDeviceInfos ==
    {device_info \in DeviceInfoCreate :
        /\ device_info.device_type \in LiveDeployment
        /\ DOMAIN device_info.args = {"com_port"}}

(* The server after startup on an empty table and one add_device request   *)
(* answered 201; the endpoints of the device as constructed.               *)
LiveInit ==
    /\ driven \in ExampleEndpoints
    /\ value = [e \in Endpoints |-> 0]
    /\ invalid = [e \in Endpoints |-> <<>>]
    /\ soft_limits = [e \in Endpoints |-> <<None, None>>]
    /\ inflight = EmptyBag
    /\ installed = LiveDeployment
    /\ phase = "up"
    /\ LET reg == discover(iter_modules(LiveDeployment),
                           [info |-> EmptyDict, modules |-> EmptyDict,
                            exc |-> "ok"])
       IN /\ device_types_info = reg.info
          /\ device_types_modules = reg.modules
          /\ \E device_info \in LiveDeviceInfos :
                /\ db = create_device_info(<<>>, device_info)
                /\ device_dict =
                      (1 :> Device(reg.modules[device_info.device_type], 1,
                                   device_info.args).device)
                /\ last = Reply("add_device", device_info, "ok", 201, 1)

(* The endpoints driven are those of the example device, which is live. *)
ExampleLive ==
    phase = "up" /\ ExampleDeviceId \in LiveDevices("example_device")

(* get_value() of the endpoint: a read, the value returned recorded as the *)
(* step's arg.                                                             *)
GetValue(e) ==
    /\ last' = Step("get_value", get_value(e), TRUE, "ok", 0, FALSE, TRUE)
    /\ UNCHANGED <<driven, value, invalid, soft_limits, inflight>>
    /\ UNCHANGED server_vars

LiveNext ==
    \/ ExampleLive /\ \E candidate \in Candidates(driven),
                          able \in is_able_to_set(driven) :
                         SetValue(driven, candidate, able)
    \/ ExampleLive /\ \E call \in BagToSet(inflight) : SetValueReturn(call)
    \/ ExampleLive /\ GetValue(driven)
    \/ ExampleLive /\ \E i \in MarkIndices : SetInvalidValue(driven, i)
    \/ ExampleLive /\ \E i \in MarkIndices : SetValidValue(driven, i)
    \/ ExampleLive /\ \E limits \in LimitPairs : SetSoftLimits(driven, limits)
    \/ \E device_id \in 1..MaxDevices, hw_ok \in BOOLEAN :
         connect_device(device_id, hw_ok)
    \/ \E device_id \in 1..MaxDevices, hw_ok \in BOOLEAN :
         disconnect_device(device_id, hw_ok)
    \/ \E device_id \in 1..MaxDevices, able \in BOOLEAN, frame \in Frames :
         Acquire(device_id, able, frame)

LiveSpec == LiveInit /\ [][LiveNext]_vars

----------------------------------------------------------------------------
(* Vocabulary of the properties *)

(* The Device above a node: the walk up the parent references. *)
RECURSIVE NearestDeviceId(_)
NearestDeviceId(node) ==
    IF node.cls = "AbstractDevice" THEN node.device_id
    ELSE NearestDeviceId(node.parent)

(* v lies in the closed interval of a pair, an absent bound not bounding. *)
Inside(v, pair) ==
    /\ \A lo \in pair[1] : lo <= v
    /\ \A hi \in pair[2] : v <= hi

NumOptions(e) == Len(get_value_options(e))

(* The candidate violates the hard limit. *)
HardViolation(e, c) ==
    IF IsDiscrete(e) THEN c >= NumOptions(e) ELSE ~Inside(c, get_hard_limits(e))

(* The candidate is legal in the current state. *)
Legal(e, c) ==
    IF IsDiscrete(e)
    THEN 0 <= c /\ c < NumOptions(e) /\ ~In(c, invalid[e])
    ELSE Inside(c, get_hard_limits(e)) /\ Inside(c, soft_limits[e])

AtHardLimit(e) ==
    IF IsSetting(e) THEN "FastMDAatHardSettingLimit" ELSE "FastMDAatHardwareLimit"
AtSoftLimit(e) ==
    IF IsSetting(e) THEN "FastMDAatSoftSettingLimit" ELSE "FastMDAatSoftwareLimit"

(* The suspended calls whose candidate is a legal one (a call in flight    *)
(* has passed the gate, so that its index was below len(options) and not   *)
(* marked invalid).                                                        *)
LegalInFlight ==
    [c \in {d \in BagToSet(inflight) : IsDiscrete(driven) => 0 <= d.arg}
        |-> CopiesIn(c, inflight)]

(* set_value went on to the driver write: it has returned ("ok") or is     *)
(* suspended in the write, from which it returns.                          *)
Succeeded == {"ok", "suspended"}

(* What get_value() returns for a value v set. *)
Shown(e, v) == IF IsDiscrete(e) THEN get_value_options(e)[v + 1] ELSE v

----------------------------------------------------------------------------
(* C1: for each of the four endpoint classes, a set_value call that finds  *)
(* is_able_to_set() false raises FastMDAisBusy with the device_id of the   *)
(* nearest Device above the endpoint, whatever the candidate; the driver   *)
(* write is not invoked, nothing is stored and no call is left waiting.    *)
C1_BusyRaisesIsBusy ==
    [][(last'.op = "set_value" /\ ~last'.able) =>
          /\ last'.outcome = "FastMDAisBusy"
          /\ last'.device_id = NearestDeviceId(Parent(driven))
          /\ ~last'.wrote
          /\ value' = value
          /\ inflight' = inflight]_vars

(* A busy setting owned by an actuator or detector refused an in-range     *)
(* candidate, naming the Device two levels up.                             *)
C1_Witness ==
    /\ last.op = "set_value" /\ ~last.able
    /\ IsSetting(driven) /\ ~isinstance(Parent(driven), "AbstractDevice")
    /\ ~HardViolation(driven, last.arg)
    /\ last.outcome = "FastMDAisBusy"
    /\ last.device_id = AbstractDeviceId

(* C2: on an endpoint of the example driver, a set_value with a legal      *)
(* candidate issued while another call's write is suspended fails with     *)
(* FastMDAisBusy, so that never two writes of legal candidates are in      *)
(* flight at once.                                                         *)
C2_BusyGuardExclusive ==
    driven \in ExampleEndpoints =>
        /\ BagCardinality(LegalInFlight) <= 1
        /\ (/\ last.op = "set_value" /\ Legal(driven, last.arg)
            /\ last.outcome \notin Succeeded
            /\ BagCardinality(LegalInFlight) = 1)
              => last.outcome = "FastMDAisBusy"

(* C3: a continuous endpoint that is able to set rejects a candidate       *)
(* outside its hard limits with the AtHardLimit failure of its variant,    *)
(* whatever the soft limits.                                               *)
C3_HardLimitRaisesAtHardLimit ==
    (/\ last.op = "set_value" /\ last.able
     /\ IsContinuous(driven)
     /\ ~Inside(last.arg, get_hard_limits(driven)))
        => last.outcome = AtHardLimit(driven)

(* C4: on a continuous endpoint that is able to set, a candidate within    *)
(* the hard limits fails with AtSoftLimit exactly when it is outside the   *)
(* current soft limits, and goes to the write when it is inside them.      *)
C4_SoftLimitDecides ==
    (/\ last.op = "set_value" /\ last.able
     /\ IsContinuous(driven)
     /\ Inside(last.arg, get_hard_limits(driven)))
        => IF Inside(last.arg, soft_limits[driven])
           THEN last.outcome \in Succeeded
           ELSE last.outcome = AtSoftLimit(driven)

(* C5: on a discrete endpoint that is able to set, set_value(i) with       *)
(* i >= len(options) fails with AtHardLimit and changes nothing: no        *)
(* driver write, same index, same invalid list.                            *)
C5_PastEndRaisesAtHardLimit ==
    [][(/\ last'.op = "set_value" /\ last'.able
        /\ IsDiscrete(driven)
        /\ last'.arg >= NumOptions(driven))
          => /\ last'.outcome = AtHardLimit(driven)
             /\ ~last'.wrote
             /\ value' = value
             /\ invalid' = invalid
             /\ inflight' = inflight]_vars

(* C6: on a discrete actuator that is able to set, for an index i below    *)
(* len(options): set_value(i) right after set_invalid_value(i) fails with  *)
(* AtSoftLimit, and set_value(i) right after set_valid_value(i) succeeds   *)
(* and get_value() shows options[i].                                       *)
C6_InvalidThenValid ==
    [][(/\ Class(driven) = "DiscreteActuator"
        /\ last'.op = "set_value" /\ last'.able
        /\ last'.arg = last.arg
        /\ 0 <= last'.arg /\ last'.arg < NumOptions(driven))
          => /\ last.op = "set_invalid_value"
                  => last'.outcome = AtSoftLimit(driven)
             /\ last.op = "set_valid_value"
                  => /\ last'.outcome \in Succeeded
                     /\ get_value(driven)' = Shown(driven, last'.arg)]_vars

(* C7: set_invalid_value(i) makes i invalid and set_valid_value(i) makes   *)
(* it valid, each leaving every other index as it was; set_invalid_value   *)
(* of an invalid index and set_valid_value of a valid index change         *)
(* nothing, and neither call fails.                                        *)
C7_MarkingIdempotent ==
    [][(last'.op \in {"set_invalid_value", "set_valid_value"}) =>
          /\ last'.outcome = "ok"
          /\ In(last'.arg, invalid'[driven]) <=> (last'.op = "set_invalid_value")
          /\ \A i \in Indices \ {last'.arg} :
                In(i, invalid'[driven]) <=> In(i, invalid[driven])
          /\ (In(last'.arg, invalid[driven]) <=> (last'.op = "set_invalid_value"))
                => invalid' = invalid]_vars

(* C8: a set_value with a legal candidate on an endpoint that is able to   *)
(* set goes to the driver write, and once the call has returned with no    *)
(* other write of the endpoint overlapping it, get_value() returns the     *)
(* value set (options[i] for a discrete endpoint).                         *)
C8_RoundTrip ==
    /\ (last.op = "set_value" /\ last.able /\ Legal(driven, last.arg))
          => last.outcome \in Succeeded
    /\ (/\ \/ last.op = "set_value" /\ last.outcome = "ok"
           \/ last.op = "set_value_return"
        /\ last.alone
        /\ IsDiscrete(driven) => 0 <= last.arg)
          => get_value(driven) = Shown(driven, last.arg)

(* The example actuator has returned from set_value(1), alone, and reads   *)
(* "on".                                                                   *)
C8_Witness ==
    /\ driven = "MyActuator"
    /\ last.op = "set_value_return" /\ last.alone /\ last.arg = 1
    /\ get_value(driven) = "on"

(* C9 as claimed: a set_value with a candidate that violates the hard      *)
(* limit, made while the endpoint is busy, fails with AtHardLimit.         *)
C9_HardLimitNotMasked ==
    (last.op = "set_value" /\ ~last.able /\ HardViolation(driven, last.arg))
        => last.outcome = AtHardLimit(driven)

(* C9 as amended: the busy check comes first.  A set_value with a          *)
(* candidate that violates the hard limit fails with FastMDAisBusy when    *)
(* the endpoint is busy, and an AtHardLimit failure is raised only when    *)
(* is_able_to_set() returned true.                                         *)
C9_BusyMasksHardLimit ==
    (last.op = "set_value" /\ HardViolation(driven, last.arg))
        => /\ ~last.able => last.outcome = "FastMDAisBusy"
           /\ last.outcome \in {"FastMDAatHardwareLimit", "FastMDAatHardSettingLimit"}
                 => last.able

(* A busy continuous actuator answered IsBusy to a candidate above its     *)
(* hard limit.                                                             *)
C9_Witness ==
    /\ driven = "ContinuousActuator"
    /\ last.op = "set_value" /\ ~last.able /\ last.arg = 1001
    /\ last.outcome = "FastMDAisBusy"

(* C10: the current index of a discrete endpoint is within                 *)
(* [0, len(options)).                                                      *)
C10_IndexInRange ==
    IsDiscrete(driven) => (0 <= value[driven] /\ value[driven] < NumOptions(driven))

(* C11: when the driver write of a set_value outlasts set_timeout the      *)
(* caller gets TimeoutError, which the set route answers with 504, a        *)
(* status it gives to no IsBusy, AtHardLimit or AtSoftLimit failure; the    *)
(* timeout rolls nothing back: the stored value is the one before the       *)
(* timeout, and on the example actuator, with no other write overlapping,   *)
(* get_value() after the timeout returns the option that was being set.     *)
C11_TimeoutKeepsWrite ==
    [][(last'.op = "set_value_timeout") =>
          /\ last'.outcome = "TimeoutError"
          /\ \A rt \in BOOLEAN :
                /\ set_actuator_value(last'.outcome, rt).status = 504
                /\ \A exc \in {"FastMDAisBusy", "FastMDAatHardwareLimit",
                                "FastMDAatSoftwareLimit", "FastMDAatHardSettingLimit",
                                "FastMDAatSoftSettingLimit"} :
                      set_actuator_value(exc, rt).status # 504
          /\ value' = value
          /\ (driven = "MyActuator" /\ last'.alone /\ 0 <= last'.arg)
                => get_value(driven)' = Shown(driven, last'.arg)]_vars

(* The example actuator, its DelaySetting at 100 s, timed out in            *)
(* set_value(1) and reads "on".                                             *)
C11_Witness ==
    /\ driven = "MyActuator"
    /\ last.op = "set_value_timeout" /\ last.outcome = "TimeoutError"
    /\ last.arg = 1 /\ last.alone
    /\ value["DelaySetting"] > set_timeout
    /\ get_value(driven) = "on"

(* C19: set_actuator_value answers an IsBusy failure of the actuator's     *)
(* set_value with 423, an AtHardLimit or AtSoftLimit failure with 406 and   *)
(* a timeout with 504, and no failure of a DiscreteActuator or              *)
(* ContinuousActuator set_value leaves the handler untranslated.            *)
C19_FailureToStatus ==
    (/\ IsActuator(driven)
     /\ last.op \in {"set_value", "set_value_timeout"}
     /\ last.outcome \notin Succeeded)
        => LET answer == set_actuator_value(last.outcome, TRUE) IN
           /\ answer.exc = "HTTPException"
           /\ last.outcome = "FastMDAisBusy" => answer.status = 423
           /\ last.outcome \in {AtHardLimit(driven), AtSoftLimit(driven)}
                 => answer.status = 406
           /\ last.outcome = "TimeoutError" => answer.status = 504

(* C20: a freshly constructed continuous endpoint has soft limits          *)
(* (None, None); set_soft_limits accepts every pair, wider than or          *)
(* disjoint from the hard limits or with lower > upper, without failing,    *)
(* and get_soft_limits() then returns exactly the pair given.               *)
C20_SoftLimitsUnvalidated ==
    IsContinuous(driven) =>
        /\ last.op = "__init__" => get_soft_limits(driven) = <<None, None>>
        /\ last.op = "set_soft_limits"
              => /\ last.outcome = "ok"
                 /\ get_soft_limits(driven) = last.arg

(* The DelaySetting, hard limits (0, 1000), took a pair disjoint from       *)
(* them, and a ContinuousActuator a pair with lower > upper.                *)
C20_Witness ==
    /\ last.op = "set_soft_limits"
    /\ \/ /\ driven = "DelaySetting"
          /\ last.arg = <<Some(2000), Some(3000)>>
       \/ /\ driven = "ContinuousActuator"
          /\ last.arg = <<Some(100), Some(0)>>
    /\ get_soft_limits(driven) = last.arg
    /\ ~within_limit(2000, get_hard_limits(driven))

(* C23: when the set_value of a DiscreteSetting or ContinuousSetting that   *)
(* is able to set rejects a candidate, the failure that reaches the caller *)
(* is FastMDAatHardSettingLimit for a hard-limit violation and             *)
(* FastMDAatSoftSettingLimit for a soft-limit violation, built from the    *)
(* setting's info, and no other kind of error.                             *)
C23_SettingLimitKeepsKind ==
    (/\ IsSetting(driven)
     /\ last.op = "set_value" /\ last.able /\ ~last.wrote)
        => IF HardViolation(driven, last.arg)
           THEN /\ last.outcome = "FastMDAatHardSettingLimit"
                /\ last.outcome = FastMDAatHardSettingLimit(SettingInfo(driven))
           ELSE /\ last.outcome = "FastMDAatSoftSettingLimit"
                /\ last.outcome = FastMDAatSoftSettingLimit(SettingInfo(driven))

(* C24: within_limit(value, (lower, upper)) is true exactly when lower is  *)
(* None or lower <= value, and upper is None or value <= upper: a value    *)
(* on a bound is within, a None bound rejects nothing, and a pair with     *)
(* lower > upper rejects every value.  Stated for the candidates and the   *)
(* hard and soft limit pairs the set_value calls apply it to.              *)
C24_WithinLimitInclusive ==
    (IsContinuous(driven) /\ last.op = "set_value") =>
        \A pair \in {get_hard_limits(driven), soft_limits[driven]} :
            /\ within_limit(last.arg, pair) <=> Inside(last.arg, pair)
            /\ pair = <<None, None>> => within_limit(last.arg, pair)
            /\ (last.arg \in pair[1] /\ pair[2] = None)
                  => within_limit(last.arg, pair)
            /\ (last.arg \in pair[2] /\ pair[1] = None)
                  => within_limit(last.arg, pair)
            /\ (\E lo \in pair[1], hi \in pair[2] : lo > hi)
                  => ~within_limit(last.arg, pair)

(* A continuous actuator with soft limits (0, 100) took the candidate 100, *)
(* the upper bound itself.                                                 *)
C24_Witness ==
    /\ driven = "ContinuousActuator"
    /\ soft_limits[driven] = <<Some(0), Some(100)>>
    /\ last.op = "set_value" /\ last.arg = 100 /\ last.wrote
    /\ within_limit(100, soft_limits[driven])

(* C25: every driver write of a continuous endpoint carries a value within *)
(* get_hard_limits() and within the soft limits in effect at the call,     *)
(* also when set_soft_limits has installed soft limits wider than the hard *)
(* limits; so every write still in flight carries a value within the hard  *)
(* limits.                                                                 *)
C25_WritesWithinHardLimits ==
    /\ (IsContinuous(driven) /\ last.op = "set_value" /\ last.wrote)
          => /\ Inside(last.arg, get_hard_limits(driven))
             /\ Inside(last.arg, soft_limits[driven])
    /\ (last.op = "settings.set_value" /\ last.wrote)
          => /\ Inside(last.arg, get_hard_limits("DelaySetting"))
             /\ Inside(last.arg, soft_limits["DelaySetting"])
    /\ IsContinuous(driven)
          => \A call \in BagToSet(inflight) :
                Inside(call.arg, get_hard_limits(driven))

(* The DelaySetting, its soft limits set to (-10, 2000), wider than the    *)
(* hard limits (0, 1000), wrote 0, the lower hard bound.                   *)
C25_Witness ==
    /\ driven = "DelaySetting"
    /\ soft_limits[driven] = <<Some(-10), Some(2000)>>
    /\ last.op = "set_value" /\ last.wrote /\ last.arg = 0

(* C26: a set_value that fails at the gate invokes no driver write and     *)
(* changes nothing: the value of every endpoint, the soft limits, the      *)
(* invalid indices and the calls in flight are as before; a set_value that *)
(* passes the gate invokes the driver write once: the candidate is stored  *)
(* on this endpoint alone and one more call is in flight when the write    *)
(* suspends.                                                               *)
C26_FailedSetChangesNothing ==
    [][(last'.op = "set_value") =>
          IF last'.outcome \in Succeeded
          THEN /\ last'.wrote
               /\ value' = [value EXCEPT ![driven] = last'.arg]
               /\ BagCardinality(inflight') =
                     BagCardinality(inflight) + (IF Suspends(driven) THEN 1 ELSE 0)
               /\ invalid' = invalid /\ soft_limits' = soft_limits
          ELSE /\ ~last'.wrote
               /\ value' = value
               /\ invalid' = invalid /\ soft_limits' = soft_limits
               /\ inflight' = inflight]_vars

(* A continuous actuator holding 100 refused 500 at its soft limits and    *)
(* still holds 100.                                                        *)
C26_Witness ==
    /\ driven = "ContinuousActuator"
    /\ last.op = "set_value" /\ last.arg = 500
    /\ last.outcome = "FastMDAatSoftwareLimit" /\ ~last.wrote
    /\ value[driven] = 100

----------------------------------------------------------------------------
(* Vocabulary of the server properties *)

(* A package that loads but is no driver: no Device class, or a Device     *)
(* whose device_type cannot be called.                                     *)
NotDriver(m) ==
    import_module(m) = "ok" /\ device_type(m) \in {"AttributeError", "TypeError"}

(* The first package, in discovery order, that does not register. *)
FirstFailing(present) ==
    LET modules == iter_modules(present)
        bad == {k \in 1..Len(modules) :
                    import_module(modules[k]) # "ok" \/ NotDriver(modules[k])}
    IN IF bad = {} THEN "none"
       ELSE modules[CHOOSE k \in bad : \A j \in bad : k <= j]

(* The factory of record id's type fails on the record's stored args. *)
FactoryFails(records, modules, id) ==
    Device(modules[records[id].device_type], id, records[id].args).exc # "ok"

(* Record id's type is registered and its factory succeeds. *)
Instantiable(records, modules, id) ==
    /\ records[id].device_type \in DOMAIN modules
    /\ ~FactoryFails(records, modules, id)

(* C12: Detector.acquire() with is_able_to_acquire() false raises          *)
(* FastMDAisBusy with the device_id of the parent Device and does not      *)
(* invoke _acquire; otherwise it invokes _acquire once and returns what    *)
(* _acquire returned.                                                      *)
C12_AcquireGuarded ==
    last.op = "acquire" =>
        IF last.arg.able
        THEN /\ last.outcome = "ok"
             /\ last.result.invoked = 1
             /\ last.result.result = last.arg.frame
        ELSE /\ last.outcome = "FastMDAisBusy"
             /\ last.result.device_id = last.arg.id
             /\ last.result.invoked = 0

(* The detector of the lab device with id 2 was busy and refused. *)
C12_Witness ==
    /\ last.op = "acquire" /\ ~last.arg.able /\ last.arg.id = 2
    /\ last.outcome = "FastMDAisBusy" /\ last.result.device_id = 2

(* C13: connect() of a live Device returns True with is_connected() true   *)
(* afterwards, or raises FastMDAConnectFailed naming the device type and   *)
(* the device id with is_connected() as before; it does not return False.  *)
(* The example driver returns True exactly when com_port is "COM1".        *)
(* disconnect() returns True with is_connected() false afterwards, or      *)
(* raises FastMDADisconnectFailed.                                         *)
C13_ConnectTrueOrRaise ==
    [][(/\ last'.op \in {"connect_device", "disconnect_device"}
        /\ last'.arg \in DOMAIN device_dict
        /\ last'.arg \in 1..Len(db))
          => LET before == device_dict[last'.arg]
                 after == device_dict'[last'.arg]
                 r == last'.result
             IN IF last'.op = "connect_device"
                THEN /\ \/ /\ r.raised = NoException
                           /\ r.returned
                           /\ is_connected(after)
                        \/ /\ r.raised = FastMDAConnectFailed(
                                             device_type(before.module), last'.arg)
                           /\ is_connected(after) = is_connected(before)
                     /\ before.module = "example_device"
                           => (r.raised = NoException <=> before.com_port = "COM1")
                ELSE \/ /\ r.raised = NoException
                        /\ r.returned
                        /\ ~is_connected(after)
                     \/ r.raised.exc = "FastMDADisconnectFailed"]_vars

(* The example device on COM2 refused to connect: FastMDAConnectFailed     *)
(* with its type name and id, the device still not connected.              *)
C13_Witness ==
    /\ last.op = "connect_device"
    /\ last.arg \in LiveDevices("example_device")
    /\ device_dict[last.arg].com_port = "COM2"
    /\ last.result.raised = FastMDAConnectFailed("Example device", last.arg)
    /\ ~is_connected(device_dict[last.arg])

(* C14: at shutdown disconnect() is attempted on every live device even    *)
(* when the disconnect() of some fail, and every device whose              *)
(* disconnect() does not fail is disconnected and its record updated.      *)
C14_ShutdownReachesEveryDevice ==
    [][(last'.op = "disconnect_devices") =>
          /\ last'.result = DOMAIN device_dict
          /\ \A id \in DOMAIN device_dict \ last'.arg :
                /\ ~is_connected(device_dict'[id])
                /\ ~db'[id].is_connected]_vars

(* C15: at startup, the registry built, every record is instantiated in    *)
(* turn: the Device made by the factory of its type from the record id     *)
(* and args is stored under the record id and the record's is_connected    *)
(* set to the Device's; a record whose factory fails makes startup fail    *)
(* with FastMDAImplementationError rather than being skipped.              *)
C15_EveryRecordInstantiated ==
    [][(last'.op = "build_device_dict" /\ last'.result = "ok") =>
          LET modules == device_types_modules'
              Upto(id) == \A j \in 1..id : Instantiable(db, modules, j)
          IN /\ \A id \in 1..Len(db) :
                  /\ Upto(id) =>
                        /\ id \in DOMAIN device_dict'
                        /\ device_dict'[id] =
                              Device(modules[db[id].device_type], id,
                                     db[id].args).device
                        /\ db'[id].is_connected = is_connected(device_dict'[id])
                  /\ (/\ Upto(id - 1)
                      /\ db[id].device_type \in DOMAIN modules
                      /\ FactoryFails(db, modules, id))
                        => /\ last'.outcome = "FastMDAImplementationError"
                           /\ phase' = "failed"
             /\ Upto(Len(db)) => (last'.outcome = "ok" /\ phase' = "up")]_vars

(* Startup stored the device of record 1 and failed on record 2, an        *)
(* example device whose stored args do not fit the constructor.            *)
C15_Witness ==
    /\ last.op = "build_device_dict" /\ last.result = "ok"
    /\ last.outcome = "FastMDAImplementationError"
    /\ DOMAIN device_dict = {1}
    /\ Len(db) = 2 /\ db[2].device_type = "example_device"
    /\ DOMAIN db[2].args # {"com_port"}

(* C16: a package that loads but is no driver makes discovery fail with    *)
(* FastMDAImplementationError; it is in neither registry, and there is     *)
(* never a live device of that kind.                                       *)
C16_NotDriverNotRegistered ==
    [][/\ (last'.op = "build_device_dict" /\ NotDriver(FirstFailing(installed)))
            => last'.outcome = "FastMDAImplementationError"
       /\ \A m \in installed' :
            NotDriver(m) =>
                /\ m \notin DOMAIN device_types_info'
                /\ m \notin DOMAIN device_types_modules'
                /\ \A id \in DOMAIN device_dict' : device_dict'[id].module # m]_vars

(* Startup failed on the package without a Device class, after the         *)
(* drivers listed before it were registered; a record of that kind is in   *)
(* the table and has no live device.                                       *)
C16_Witness ==
    /\ phase = "failed" /\ last.op = "build_device_dict"
    /\ last.outcome = "FastMDAImplementationError"
    /\ "no_device" \in installed
    /\ "no_device" \notin DOMAIN device_types_modules
    /\ "lab_device" \in DOMAIN device_types_modules
    /\ \E id \in 1..Len(db) :
          db[id].device_type = "no_device" /\ id \notin DOMAIN device_dict

(* C17: an add_device request and, at startup, a record whose device_type  *)
(* is not in the registry fail with FastMDAModuleError, and so does        *)
(* discovery on a package that cannot be loaded.                           *)
C17_UnknownKindModuleError ==
    /\ (/\ last.op = "add_device"
        /\ last.arg.device_type \notin DOMAIN device_types_modules)
          => last.outcome = "FastMDAModuleError"
    /\ (/\ last.op = "build_device_dict" /\ last.result = "ok"
        /\ \E id \in 1..Len(db) :
              /\ db[id].device_type \notin DOMAIN device_types_modules
              /\ \A j \in 1..(id - 1) : j \in DOMAIN device_dict)
          => last.outcome = "FastMDAModuleError"
    /\ (/\ last.op = "build_device_dict"
        /\ FirstFailing(installed) # "none"
        /\ import_module(FirstFailing(installed)) # "ok")
          => last.outcome = "FastMDAModuleError"

(* C18: once startup has finished, no operation of the running server,     *)
(* shutdown included, changes device_types_info or device_types_modules.   *)
C18_RegistryImmutable ==
    [][phase = "up" =>
          /\ device_types_info' = device_types_info
          /\ device_types_modules' = device_types_modules]_vars

(* A device was added to a server whose registry holds the example and     *)
(* the lab driver, and the registry holds just these.                      *)
C18_Witness ==
    /\ phase = "up" /\ last.op = "add_device" /\ last.status = 201
    /\ DOMAIN device_types_modules = {"example_device", "lab_device"}
    /\ DOMAIN device_types_info = {"example_device", "lab_device"}

(* C27: while the server is up, the ids of the persisted records are the   *)
(* keys of device_dict, and an add_device request that fails, because the  *)
(* device_type is not registered or the Device cannot be constructed from  *)
(* the args, leaves no record behind.                                      *)
C27_RecordsMatchDevices ==
    /\ phase = "up" => DOMAIN device_dict = 1..Len(db)
    /\ (last.op = "add_device" /\ last.outcome # "ok")
          => last.result \notin 1..Len(db)

(* C28: after startup and after every connect_device and disconnect_device *)
(* request, whether it succeeded or failed, the is_connected flag of the   *)
(* record of each live device equals the device's is_connected(); a        *)
(* connect_device request answered 500 for FastMDAConnectFailed leaves the *)
(* records and the live devices as they were.                              *)
C28_RecordMirrorsDevice ==
    [][/\ \A id \in DOMAIN device_dict' :
             /\ id \in 1..Len(db')
             /\ db'[id].is_connected = is_connected(device_dict'[id])
       /\ (last'.op = "connect_device" /\ last'.status = 500)
             => (db' = db /\ device_dict' = device_dict)]_vars

(* A connect_device request on a device was answered 500 while another     *)
(* device is connected and recorded as connected.                          *)
C28_Witness ==
    /\ last.op = "connect_device" /\ last.status = 500
    /\ last.result.raised.exc = "FastMDAConnectFailed"
    /\ ~db[last.arg].is_connected /\ ~is_connected(device_dict[last.arg])
    /\ \E id \in DOMAIN device_dict :
          db[id].is_connected /\ is_connected(device_dict[id])

(* C30: a set_device_setting_value request on a device-level setting has   *)
(* run the set algorithm when it answers: for an able setting and a        *)
(* candidate within the hard and soft limits the setting holds the         *)
(* candidate and the handler returns that value; for a busy setting the    *)
(* answer is 423, for a candidate outside the limits 406, and the          *)
(* setting's value is unchanged.                                           *)
C30_DeviceSettingSetCompletes ==
    [][(/\ last'.op = "set_device_setting_value"
        /\ last'.arg.device_id \in DOMAIN device_dict
        /\ last'.arg.setting_id \in DOMAIN settings(device_dict[last'.arg.device_id]))
          => LET e == settings(device_dict[last'.arg.device_id])[last'.arg.setting_id]
                 v == last'.arg.value
             IN IF ~last'.arg.able
                THEN last'.status = 423 /\ value' = value
                ELSE IF Legal(e, v)
                THEN /\ value'[e] = v
                     /\ last'.result = [float |-> v]
                ELSE last'.status = 406 /\ value' = value]_vars

(* C21: is_connected() of a live Device changes only in a connect or a     *)
(* disconnect: get_value, set_value (passing the gate or failing at it),   *)
(* the return of a set_value, set_soft_limits, set_invalid_value and       *)
(* set_valid_value on the device's endpoints and acquire on its detector   *)
(* leave the live devices and their is_connected() as they were.           *)
C21_OnlyConnectChangesConnection ==
    [][/\ (\E id \in DOMAIN device_dict :
              \/ id \notin DOMAIN device_dict'
              \/ is_connected(device_dict'[id]) # is_connected(device_dict[id]))
            => last'.op \in {"connect_device", "disconnect_device"}
       /\ last'.op \in {"get_value", "set_value", "set_value_return",
                        "set_soft_limits", "set_invalid_value",
                        "set_valid_value", "acquire"}
            => device_dict' = device_dict]_vars

(* The example actuator of a connected device refused an index at its      *)
(* hard limit, an index being marked invalid, and the device is still      *)
(* connected.                                                              *)
C21_Witness ==
    /\ driven = "MyActuator"
    /\ last.op = "set_value" /\ last.outcome = "FastMDAatHardwareLimit"
    /\ invalid[driven] # <<>>
    /\ is_connected(device_dict[ExampleDeviceId])

====
